---- MODULE Spec2Model ----
(***************************************************************************)
(* Model of server/index.js: the in-memory lobby server.  One action per   *)
(* socket.io handler; every handler runs to completion (Node's single      *)
(* threaded event loop), so each is one atomic step.                       *)
(*                                                                         *)
(* JavaScript strings are sequences of one-character strings.  Values that *)
(* come from a client, or that may be undefined/null, are tagged records:  *)
(* [t |-> "undefined"], [t |-> "null"], [t |-> "number", v |-> n],         *)
(* [t |-> "string", v |-> s], [t |-> "object", v |-> x].                   *)
(***************************************************************************)
EXTENDS Integers, Sequences, FiniteSets, TLC

VARIABLES rooms, connected, data, channels, now, req, out, events

vars == <<rooms, connected, data, channels, now, req, out, events>>

(* ------------------------------ bounds -------------------------------- *)

\* number of client events (disconnects included) handled in one behaviour
MaxEvents == 3

\* SpecClamp: create-room is sent with maxPlayers from -MaxAbsPlayers to
\* MaxAbsPlayers, in behaviours of at most MaxClampEvents client events
MaxAbsPlayers == 8

MaxClampEvents == 2

(* ------------------------- JavaScript values -------------------------- *)

Undefined == [t |-> "undefined"]

Null == [t |-> "null"]

Num(n) == [t |-> "number", v |-> n]

Str(s) == [t |-> "string", v |-> s]

Obj(x) == [t |-> "object", v |-> x]

\* ToBoolean for the value shapes used here
Truthy(x) ==
  CASE x.t = "undefined" -> FALSE
    [] x.t = "null" -> FALSE
    [] x.t = "number" -> x.v # 0
    [] x.t = "string" -> x.v # <<>>
    [] OTHER -> TRUE

Min(a, b) == IF a < b THEN a ELSE b

Max(a, b) == IF a > b THEN a ELSE b

\* String.prototype.slice(start, end) for 0 <= start <= end
Slice(s, start, end) == SubSeq(s, start + 1, Min(end, Len(s)))

WhiteSpace == {" ", "\t", "\n"}

RECURSIVE TrimStart(_)
TrimStart(s) ==
  IF s # <<>> /\ Head(s) \in WhiteSpace THEN TrimStart(Tail(s)) ELSE s

RECURSIVE TrimEnd(_)
TrimEnd(s) ==
  IF s # <<>> /\ s[Len(s)] \in WhiteSpace
  THEN TrimEnd(SubSeq(s, 1, Len(s) - 1))
  ELSE s

\* String.prototype.trim
Trim(s) == TrimEnd(TrimStart(s))

LowerLetters ==
  <<"a","b","c","d","e","f","g","h","i","j","k","l","m",
    "n","o","p","q","r","s","t","u","v","w","x","y","z">>

UpperLetters ==
  <<"A","B","C","D","E","F","G","H","I","J","K","L","M",
    "N","O","P","Q","R","S","T","U","V","W","X","Y","Z">>

UpperChar(ch) ==
  IF \E i \in 1..Len(LowerLetters) : LowerLetters[i] = ch
  THEN UpperLetters[CHOOSE i \in 1..Len(LowerLetters) : LowerLetters[i] = ch]
  ELSE ch

\* String.prototype.toUpperCase
ToUpperCase(s) == [i \in 1..Len(s) |-> UpperChar(s[i])]

HexDigits == <<"0","1","2","3","4","5","6","7","8","9","a","b","c","d","e","f">>

RECURSIVE ToHex(_)
\* Buffer.prototype.toString('hex'): two lower-case digits per byte
ToHex(bytes) ==
  IF bytes = <<>> THEN <<>>
  ELSE <<HexDigits[(Head(bytes) \div 16) + 1], HexDigits[(Head(bytes) % 16) + 1]>>
       \o ToHex(Tail(bytes))

(* ------------------------------ inputs -------------------------------- *)

\* socket.io connection ids (real ids are 20 characters; these are 5 so
\* that slice(0,4) cuts them)
SocketIds ==
  { <<"k","Q","7","x","P">>, <<"m","Z","2","a","B">>, <<"t","R","9","c","D">> }

\* byte values crypto.randomBytes may return (each byte of a buffer equal)
ByteValues == {10, 171}

\* crypto.randomBytes(n)
RandomBytes(n) == { [i \in 1..n |-> b] : b \in ByteValues }

PaddedName == <<" ", "a", "n", "n", " ">>

LongName == [i \in 1..34 |-> "z"]

BlankName == <<" ", " ">>

\* create-room requests: the payload and whether an ack callback is passed
CreateRequests ==
  { [payload |-> [name |-> Undefined, maxPlayers |-> Num(1)], cb |-> TRUE],
    [payload |-> [name |-> Str(PaddedName), maxPlayers |-> Undefined], cb |-> FALSE] }

MAX_PLAYERS_DEFAULT == 6

MIN_PLAYERS == 2

ROOM_ID_LEN == 6

NAME_MAX == 32

GRID_SIZE == 30

(* --------------------------- pure functions --------------------------- *)

\* Math.ceil(len / 2)
CeilHalf(len) == (len + 1) \div 2

\* makeRoomId(len) given the bytes crypto.randomBytes returned
makeRoomId(len, bytes) == ToUpperCase(Slice(ToHex(bytes), 0, len))

\* every id makeRoomId(6) can return in this model
RoomIds == { makeRoomId(ROOM_ID_LEN, b) : b \in RandomBytes(CeilHalf(ROOM_ID_LEN)) }

\* mutant: the loops run while y <= size, x <= size
generateGrid_Inclusive(size) ==
  [y \in 1..(size + 1) |-> [x \in 1..(size + 1) |-> [type |-> "empty", hp |-> 0]]]

generateGrid(size) ==
  [y \in 1..size |-> [x \in 1..size |-> [type |-> "empty", hp |-> 0]]]

\* the room object built by createRoom (before rooms.set)
createRoom(hostSocketId, hostName, maxPlayers, roomId, t) ==
  [ id |-> roomId,
    host |-> hostSocketId,
    hostName |-> hostName,
    players |-> <<>>,
    maxPlayers |-> maxPlayers,
    state |-> "lobby",
    grid |-> Null,
    createdAt |-> t ]

\* mutant: the roster is sent with the ready flags of a fresh player
getPublicRoomData_FreshReady(room) ==
  [ id |-> room.id,
    host |-> room.host,
    hostName |-> room.hostName,
    players |-> [i \in 1..Len(room.players) |->
                   [ id |-> room.players[i].id,
                     name |-> room.players[i].name,
                     ready |-> FALSE ]],
    state |-> room.state,
    maxPlayers |-> room.maxPlayers ]

getPublicRoomData(room) ==
  [ id |-> room.id,
    host |-> room.host,
    hostName |-> room.hostName,
    players |-> [i \in 1..Len(room.players) |->
                   [ id |-> room.players[i].id,
                     name |-> room.players[i].name,
                     ready |-> room.players[i].ready ]],
    state |-> room.state,
    maxPlayers |-> room.maxPlayers ]

(* ----------------------- the rooms Map (ordered) ---------------------- *)

MapHas(m, k) == \E i \in 1..Len(m) : m[i].id = k

MapIndex(m, k) == CHOOSE i \in 1..Len(m) : m[i].id = k

MapGet(m, k) == m[MapIndex(m, k)]

\* Map.prototype.set: an existing key keeps its position
MapSet(m, k, room) ==
  IF MapHas(m, k) THEN [m EXCEPT ![MapIndex(m, k)] = room] ELSE Append(m, room)

MapDelete(m, k) == SelectSeq(m, LAMBDA r : r.id # k)

(* ------------------------- handler helpers ---------------------------- *)

\* mutant: Math.max(2, ...) is left out
clampMaxPlayers_NoFloor(m) ==
  Min(IF Truthy(m) THEN m.v ELSE MAX_PLAYERS_DEFAULT, MAX_PLAYERS_DEFAULT)

\* Math.min(Math.max(2, maxPlayers || 6), 6)
clampMaxPlayers(m) ==
  Min(Max(MIN_PLAYERS, IF Truthy(m) THEN m.v ELSE MAX_PLAYERS_DEFAULT),
      MAX_PLAYERS_DEFAULT)

\* (name && name.trim()) ? name.trim().slice(0,32) : `${prefix}${socket.id.slice(0,4)}`
playerNameOf(name, prefix, sid) ==
  IF Truthy(name) /\ Truthy(Str(Trim(name.v)))
  THEN Slice(Trim(name.v), 0, NAME_MAX)
  ELSE prefix \o Slice(sid, 0, 4)

HostPrefix == <<"H", "o", "s", "t", "_">>

PlayerPrefix == <<"P", "l", "a", "y", "e", "r", "_">>

\* room.players.push({ id, name, ready: false })
pushPlayer(room, sid, name) ==
  [room EXCEPT !.players = Append(@, [id |-> sid, name |-> name, ready |-> FALSE])]

\* mutant: the state is compared with a name the server never sets
gameAlreadyStarted_WrongName(room) == room.state = "started"

\* join-room: room.state !== 'lobby'
gameAlreadyStarted(room) == room.state # "lobby"

\* mutant: the fixed cap of 6 in place of the room's own maxPlayers
roomFull_DefaultCap(room) == Len(room.players) >= MAX_PLAYERS_DEFAULT

\* mutant: > in place of >=
roomFull_OffByOne(room) == Len(room.players) > room.maxPlayers

\* join-room: room.players.length >= room.maxPlayers
roomFull(room) == Len(room.players) >= room.maxPlayers

\* mutant: the association is kept after leave-room
clearRoomId_Keeps(d) == d

\* leave-room: delete socket.data.roomId
clearRoomId(d) == [d EXCEPT !.roomId = Undefined]

\* room.players = room.players.filter(p => p.id !== socket.id)
removePlayer(room, sid) ==
  [room EXCEPT !.players = SelectSeq(@, LAMBDA p : p.id # sid)]

\* mutant: the host is never transferred
transferHost_Never(room, sid) == room

\* mutant: the host id moves but hostName is left alone
transferHost_KeepsName(room, sid) ==
  IF room.host = sid /\ Len(room.players) > 0
  THEN [room EXCEPT !.host = room.players[1].id]
  ELSE room

\* "If host left, transfer host to first player" (room already filtered)
transferHost(room, sid) ==
  IF room.host = sid /\ Len(room.players) > 0
  THEN [room EXCEPT !.host = room.players[1].id,
                    !.hostName = room.players[1].name]
  ELSE room

\* room.players.find(p => p.id === socket.id): index of the first match, 0 if none
findPlayer(room, sid) ==
  IF \E i \in 1..Len(room.players) : room.players[i].id = sid
  THEN CHOOSE i \in 1..Len(room.players) :
         /\ room.players[i].id = sid
         /\ \A j \in 1..(i - 1) : room.players[j].id # sid
  ELSE 0

\* mutant: the flag is set, not flipped
toggleReady_SetsReady(room, i) ==
  [room EXCEPT !.players[i].ready = TRUE]

\* player.ready = !player.ready
toggleReady(room, i) ==
  [room EXCEPT !.players[i].ready = ~@]

\* mutant: any player of the room may start
notHost_AnyPlayer(room, sid) ==
  \A i \in 1..Len(room.players) : room.players[i].id # sid

\* start-game: room.host !== socket.id
notHost(room, sid) == room.host # sid

\* mutant: the commented-out NOT_ALL_READY gate is in force as well
noPlayers_OrNotAllReady(room) ==
  \/ Len(room.players) = 0
  \/ \E i \in 1..Len(room.players) : ~room.players[i].ready

\* start-game: room.players.length === 0
noPlayers(room) == Len(room.players) = 0

\* mutant: start-game flips the state
startRoom_Toggles(room) ==
  [room EXCEPT !.state = IF @ = "lobby" THEN "in-game" ELSE "lobby",
               !.grid = Obj(generateGrid(GRID_SIZE))]

\* room.state = 'in-game'; room.grid = generateGrid(30)
startRoom(room) ==
  [room EXCEPT !.state = "in-game", !.grid = Obj(generateGrid(GRID_SIZE))]

\* start-game: the payload of the game-start broadcast
startPayload(room) ==
  [ roomId |-> room.id,
    gridSize |-> Len(room.grid.v),
    grid |-> room.grid.v,
    players |-> [i \in 1..Len(room.players) |->
                   [id |-> room.players[i].id, name |-> room.players[i].name]] ]

(* ------------------------------ messages ------------------------------ *)

\* the sockets joined to channel ch: the receivers of io.to(ch).emit
Recipients(ch, chans) == { s \in SocketIds : ch \in chans[s] }

\* io.to(ch).emit(event, payload)
Emit(ch, event, payload, chans) ==
  [event |-> event, chan |-> ch, to |-> Recipients(ch, chans), payload |-> payload]

\* cb(payload) / socket.emit(event, payload): delivered to socket sid only
Direct(sid, event, payload) ==
  [event |-> event, chan |-> sid, to |-> {sid}, payload |-> payload]

\* if (cb) cb(payload)
Ack(sid, cb, payload) == IF cb THEN <<Direct(sid, "ack", payload)>> ELSE <<>>

Fail(code) == [ok |-> FALSE, error |-> code]

Request(event, sid, arg, cb) == [event |-> event, socket |-> sid, arg |-> arg, cb |-> cb]

(* ------------------------------- state -------------------------------- *)

NoData == [roomId |-> Undefined, name |-> Undefined]

Init ==
  /\ rooms = <<>>
  /\ connected = [s \in SocketIds |-> "new"]
  /\ data = [s \in SocketIds |-> NoData]
  /\ channels = [s \in SocketIds |-> {}]
  /\ now = 0
  /\ req = Request("none", <<>>, Undefined, FALSE)
  /\ out = <<>>
  /\ events = 0

\* a client event from socket s can be handled
Live(s) == connected[s] = "connected" /\ events < MaxEvents

\* io.on('connection'): the handlers are registered, socket.data is empty
Connect(s) ==
  /\ connected[s] = "new"
  /\ connected' = [connected EXCEPT ![s] = "connected"]
  /\ req' = Request("connection", s, Undefined, FALSE)
  /\ out' = <<>>
  /\ UNCHANGED <<rooms, data, channels, now, events>>

SetUsernameArgs == {Num(5), Str(BlankName), Str(LongName)}

SetUsername(s) ==
  /\ Live(s)
  /\ \E name \in SetUsernameArgs :
     LET n == IF name.t = "string" /\ Truthy(Str(Trim(name.v)))
              THEN Slice(Trim(name.v), 0, NAME_MAX)
              ELSE PlayerPrefix \o Slice(s, 0, 4)
     IN /\ data' = [data EXCEPT ![s].name = Str(n)]
        /\ out' = <<Direct(s, "username-set", n)>>
        /\ req' = Request("set-username", s, name, FALSE)
  /\ events' = events + 1
  /\ UNCHANGED <<rooms, connected, channels, now>>

\* Date.now() at a create-room: one tick after the previous create-room
\* (createdAt is written once and never read by the server)
Clock == {now + 1}

\* Intermediate values are bound with \E x \in {e} so that each is computed
\* once per step.
\* the create-room handler for one request, with the bytes and the time
\* the environment returns
CreateRoomWith(s, request, bytes, t) ==
  /\ \E payload \in {request.payload}, cb \in {request.cb} :
     \E playerName \in {playerNameOf(payload.name, HostPrefix, s)} :
     \E room \in {pushPlayer(createRoom(s, playerName,
                                        clampMaxPlayers(payload.maxPlayers),
                                        makeRoomId(ROOM_ID_LEN, bytes), t),
                             s, playerName)} :
     \E chans \in {[channels EXCEPT ![s] = @ \cup {room.id}]} :
     \E publicData \in {getPublicRoomData(room)} :
        /\ rooms' = MapSet(rooms, room.id, room)
        /\ channels' = chans
        /\ data' = [data EXCEPT ![s] = [roomId |-> Str(room.id), name |-> Str(playerName)]]
        /\ out' = Ack(s, cb, [ok |-> TRUE, room |-> publicData])
                  \o <<Emit(room.id, "lobby-update", publicData, chans)>>
        /\ now' = t
        /\ req' = Request("create-room", s, payload, cb)
  /\ events' = events + 1
  /\ UNCHANGED connected

CreateRoom(s) ==
  /\ Live(s)
  /\ \E request \in CreateRequests,
        bytes \in RandomBytes(CeilHalf(ROOM_ID_LEN)), t \in Clock :
       CreateRoomWith(s, request, bytes, t)

\* join-room payloads: the room id is sent in lower case, exactly as
\* issued, or not at all
JoinPayloads ==
  { [roomId |-> Str(Slice(ToHex(<<10, 10, 10>>), 0, ROOM_ID_LEN)), name |-> Undefined],
    [roomId |-> Str(makeRoomId(ROOM_ID_LEN, <<171, 171, 171>>)), name |-> Str(PaddedName)],
    [roomId |-> Undefined, name |-> Undefined] }

\* mutant: an error return also drops the socket's room association
Reject_DropsRoom(s, cb, code) ==
  /\ out' = Ack(s, cb, Fail(code))
  /\ data' = [data EXCEPT ![s].roomId = Undefined]
  /\ UNCHANGED <<rooms, connected, channels, now>>

\* the handler returns after an error acknowledgment: nothing else changes
Reject(s, cb, code) ==
  /\ out' = Ack(s, cb, Fail(code))
  /\ UNCHANGED <<rooms, connected, data, channels, now>>

JoinRoom(s) ==
  /\ Live(s)
  /\ \E payload \in JoinPayloads, cb \in BOOLEAN :
     /\ req' = Request("join-room", s, payload, cb)
     /\ \E key \in {ToUpperCase(IF Truthy(payload.roomId) THEN payload.roomId.v ELSE <<>>)} :
        IF ~MapHas(rooms, key) THEN Reject(s, cb, "ROOM_NOT_FOUND")
        ELSE IF gameAlreadyStarted(MapGet(rooms, key))
             THEN Reject(s, cb, "GAME_ALREADY_STARTED")
        ELSE IF roomFull(MapGet(rooms, key)) THEN Reject(s, cb, "ROOM_FULL")
        ELSE
          \E playerName \in {playerNameOf(payload.name, PlayerPrefix, s)} :
          \E room \in {pushPlayer(MapGet(rooms, key), s, playerName)} :
          \E chans \in {[channels EXCEPT ![s] = @ \cup {room.id}]} :
          \E publicData \in {getPublicRoomData(room)} :
             /\ rooms' = MapSet(rooms, room.id, room)
             /\ channels' = chans
             /\ data' = [data EXCEPT ![s] =
                           [roomId |-> Str(room.id), name |-> Str(playerName)]]
             /\ out' = Ack(s, cb, [ok |-> TRUE, room |-> publicData])
                       \o <<Emit(room.id, "lobby-update", publicData, chans)>>
             /\ UNCHANGED <<connected, now>>
  /\ events' = events + 1

\* leave-room after socket.leave (lines 111-127): the registry it leaves
\* and the broadcasts it emits; chans are the channels after socket.leave
leaveRoomOutcome(m, chans, sid, rid) ==
  LET room == transferHost(removePlayer(MapGet(m, rid), sid), sid)
  IN IF Len(room.players) = 0
     THEN [rooms |-> MapDelete(m, room.id), emits |-> <<>>]
     ELSE [rooms |-> MapSet(m, room.id, room),
           emits |-> <<Emit(room.id, "lobby-update", getPublicRoomData(room), chans)>>]

LeaveRoom(s) ==
  /\ Live(s)
  /\ \E cb \in BOOLEAN :
     /\ req' = Request("leave-room", s, Undefined, cb)
     /\ \E rid \in {data[s].roomId} :
        IF ~Truthy(rid) THEN Reject(s, cb, "NOT_IN_ROOM")
        ELSE IF ~MapHas(rooms, rid.v) THEN Reject(s, cb, "ROOM_NOT_FOUND")
        ELSE
          \E chans \in {[channels EXCEPT ![s] = @ \ {rid.v}]} :
          \E o \in {leaveRoomOutcome(rooms, chans, s, rid.v)} :
             /\ channels' = chans
             /\ data' = [data EXCEPT ![s] = clearRoomId(@)]
             /\ rooms' = o.rooms
             /\ out' = o.emits \o Ack(s, cb, [ok |-> TRUE])
             /\ UNCHANGED <<connected, now>>
  /\ events' = events + 1

ToggleReady(s) ==
  /\ Live(s)
  /\ \E cb \in BOOLEAN :
     /\ req' = Request("toggle-ready", s, Undefined, cb)
     /\ \E rid \in {data[s].roomId} :
        IF ~Truthy(rid) THEN Reject(s, cb, "NOT_IN_ROOM")
        ELSE IF ~MapHas(rooms, rid.v) THEN Reject(s, cb, "ROOM_NOT_FOUND")
        ELSE IF findPlayer(MapGet(rooms, rid.v), s) = 0
             THEN Reject(s, cb, "PLAYER_NOT_IN_ROOM")
        ELSE
          \E i \in {findPlayer(MapGet(rooms, rid.v), s)} :
          \E room \in {toggleReady(MapGet(rooms, rid.v), i)} :
             /\ rooms' = MapSet(rooms, room.id, room)
             /\ out' = <<Emit(room.id, "lobby-update",
                              getPublicRoomData(room), channels)>>
                       \o Ack(s, cb, [ok |-> TRUE, ready |-> room.players[i].ready])
             /\ UNCHANGED <<connected, data, channels, now>>
  /\ events' = events + 1

StartGame(s) ==
  /\ Live(s)
  /\ \E cb \in BOOLEAN :
     /\ req' = Request("start-game", s, Undefined, cb)
     /\ \E rid \in {data[s].roomId} :
        IF ~Truthy(rid) THEN Reject(s, cb, "NOT_IN_ROOM")
        ELSE IF ~MapHas(rooms, rid.v) THEN Reject(s, cb, "ROOM_NOT_FOUND")
        ELSE IF notHost(MapGet(rooms, rid.v), s) THEN Reject(s, cb, "NOT_HOST")
        ELSE IF noPlayers(MapGet(rooms, rid.v)) THEN Reject(s, cb, "NO_PLAYERS")
        ELSE
          \E room \in {startRoom(MapGet(rooms, rid.v))} :
             /\ rooms' = MapSet(rooms, room.id, room)
             /\ out' = << Emit(room.id, "game-start", startPayload(room), channels),
                          Emit(room.id, "lobby-update",
                               getPublicRoomData(room), channels) >>
                       \o Ack(s, cb, [ok |-> TRUE, started |-> TRUE])
             /\ UNCHANGED <<connected, data, channels, now>>
  /\ events' = events + 1

GetRooms(s) ==
  /\ Live(s)
  /\ \E cb \in BOOLEAN :
     /\ out' = Ack(s, cb, [ok |-> TRUE,
                           rooms |-> [i \in 1..Len(rooms) |->
                                        getPublicRoomData(rooms[i])]])
     /\ req' = Request("get-rooms", s, Undefined, cb)
  /\ events' = events + 1
  /\ UNCHANGED <<rooms, connected, data, channels, now>>

\* mutant: disconnect filters the players but leaves the host alone
disconnectOutcome_NoTransfer(m, chans, sid, rid) ==
  LET room == removePlayer(MapGet(m, rid), sid)
  IN IF Len(room.players) = 0
     THEN [rooms |-> MapDelete(m, rid), emits |-> <<>>]
     ELSE [rooms |-> MapSet(m, room.id, room),
           emits |-> <<Emit(rid, "lobby-update", getPublicRoomData(room), chans)>>]

\* disconnect once the room is found (lines 188-197): the registry it
\* leaves and the broadcasts it emits
disconnectOutcome(m, chans, sid, rid) ==
  LET room == transferHost(removePlayer(MapGet(m, rid), sid), sid)
  IN IF Len(room.players) = 0
     THEN [rooms |-> MapDelete(m, rid), emits |-> <<>>]
     ELSE [rooms |-> MapSet(m, room.id, room),
           emits |-> <<Emit(rid, "lobby-update", getPublicRoomData(room), chans)>>]

\* socket.io has already taken the socket out of every channel when the
\* 'disconnect' listener runs
Disconnect(s) ==
  /\ Live(s)
  /\ LET rid == data[s].roomId
         chans == [channels EXCEPT ![s] = {}]
     IN /\ channels' = chans
        /\ IF Truthy(rid) /\ MapHas(rooms, rid.v)
           THEN \E o \in {disconnectOutcome(rooms, chans, s, rid.v)} :
                   /\ rooms' = o.rooms
                   /\ out' = o.emits
           ELSE /\ rooms' = rooms
                /\ out' = <<>>
  /\ connected' = [connected EXCEPT ![s] = "disconnected"]
  /\ req' = Request("disconnect", s, Undefined, FALSE)
  /\ events' = events + 1
  /\ UNCHANGED <<data, now>>

Next ==
  \/ \E s \in SocketIds : Connect(s)
  \/ \E s \in SocketIds : SetUsername(s)
  \/ \E s \in SocketIds : CreateRoom(s)
  \/ \E s \in SocketIds : JoinRoom(s)
  \/ \E s \in SocketIds : LeaveRoom(s)
  \/ \E s \in SocketIds : ToggleReady(s)
  \/ \E s \in SocketIds : StartGame(s)
  \/ \E s \in SocketIds : GetRooms(s)
  \/ \E s \in SocketIds : Disconnect(s)

Spec == Init /\ [][Next]_vars

TypeOK ==
  /\ \A i \in 1..Len(rooms) : rooms[i].id \in RoomIds
  /\ \A i, j \in 1..Len(rooms) : rooms[i].id = rooms[j].id => i = j
  /\ events \in 0..MaxEvents

(* ------------------------- claim vocabulary --------------------------- *)

PlayerIds(room) == { room.players[j].id : j \in 1..Len(room.players) }

LiveRooms == { rooms[i] : i \in 1..Len(rooms) }

\* the key join-room looks up for a request
JoinKey(r) == ToUpperCase(IF Truthy(r.arg.roomId) THEN r.arg.roomId.v ELSE <<>>)

HasPrefix(str, prefix) ==
  Len(str) >= Len(prefix) /\ SubSeq(str, 1, Len(prefix)) = prefix

\* the last handler sent this error acknowledgment
Refused(code) == out = <<Direct(req.socket, "ack", Fail(code))>>

(* ------------------------------- claims ------------------------------- *)

\* C1: every room in the registry has at least one and at most maxPlayers
\* player records; no room is kept with zero players.
C1_RoomSizeBounds ==
  \A room \in LiveRooms :
    /\ 1 <= Len(room.players)
    /\ Len(room.players) <= room.maxPlayers

\* a join was refused with ROOM_FULL while a room holds exactly maxPlayers
C1_Witness ==
  /\ req.event = "join-room"
  /\ Refused("ROOM_FULL")
  /\ \E room \in LiveRooms :
       room.id = JoinKey(req) /\ Len(room.players) = room.maxPlayers

\* C2: every connection id has a player record in at most one room of the
\* registry.
C2_OneRoomPerConnection ==
  \A s \in SocketIds :
    Cardinality({ room \in LiveRooms : s \in PlayerIds(room) }) <= 1

\* C3: no room's players sequence holds two records with the same id.
C3_NoDuplicatePlayers ==
  \A room \in LiveRooms :
    \A i, j \in 1..Len(room.players) :
      room.players[i].id = room.players[j].id => i = j

\* C4: the host of every room in the registry is the id of one of the
\* room's player records.
C4_HostIsPlayer ==
  \A room \in LiveRooms : room.host \in PlayerIds(room)

\* a leave-room moved the host to a joiner: the creator is gone from the
\* room and the host carries a joiner's name
C4_Witness ==
  /\ req.event = "leave-room"
  /\ \E room \in LiveRooms :
       /\ room.host # req.socket
       /\ req.socket \notin PlayerIds(room)
       /\ room.hostName = PlayerPrefix \o Slice(room.host, 0, 4)
       /\ \E k \in 1..Len(out) :
            out[k].event = "lobby-update" /\ out[k].chan = room.id

C6_DisconnectRemovesPlayer ==
  \A s \in SocketIds :
    connected[s] = "disconnected" =>
      \A room \in LiveRooms : s \notin PlayerIds(room)

\* C7: game-start is broadcast only at the lobby -> in-game transition: a
\* step that emits game-start for a room found that room in lobby state.
C7_GameStartOnce ==
  [][ \A k \in 1..Len(out') :
        out'[k].event = "game-start" =>
          /\ MapHas(rooms, out'[k].chan)
          /\ MapGet(rooms, out'[k].chan).state = "lobby"
    ]_vars

\* this step's create-room made the room now stored under id r
CreatedInStep(r) ==
  req'.event = "create-room" /\ data'[req'.socket].roomId = Str(r)

\* C8: a room that is in-game stays in-game for as long as it is in the
\* registry (a create-room that draws the same id stores a new room).
C8_NoRollback ==
  [][ \A room \in LiveRooms :
        ( /\ room.state = "in-game"
          /\ MapHas(rooms', room.id)
          /\ ~CreatedInStep(room.id) )
        => MapGet(rooms', room.id).state = "in-game"
    ]_vars

\* a request other than start-game was handled for a socket whose room is
\* in-game
C8_Witness ==
  /\ req.event \in {"toggle-ready", "leave-room", "disconnect", "join-room"}
  /\ Truthy(data[req.socket].roomId)
  /\ \E room \in LiveRooms :
       /\ data[req.socket].roomId = Str(room.id)
       /\ room.state = "in-game"

EmptyCell == [type |-> "empty", hp |-> 0]

\* C9: a room's grid is non-null exactly when the room is in-game, and then
\* it is a 30x30 matrix of {type: empty, hp: 0} cells.
C9_GridIffInGame ==
  \A room \in LiveRooms :
    /\ (room.grid # Null) <=> (room.state = "in-game")
    /\ room.grid # Null =>
         /\ Len(room.grid.v) = 30
         /\ \A y \in 1..Len(room.grid.v) :
              /\ Len(room.grid.v[y]) = 30
              /\ \A x \in 1..Len(room.grid.v[y]) : room.grid.v[y][x] = EmptyCell

\* a start-game has just succeeded and its room carries a grid
C9_Witness ==
  /\ req.event = "start-game"
  /\ \E k \in 1..Len(out) : out[k].event = "game-start" /\ out[k].payload.gridSize = 30
  /\ \E room \in LiveRooms : room.state = "in-game" /\ room.grid # Null

\* C10: a join-room for a room that is in-game is refused with
\* GAME_ALREADY_STARTED (sent when a callback was passed), emits nothing
\* else, and leaves the registry, the joiner's association and the channels
\* as they were.
C10_JoinInGameRefused ==
  [][ ( /\ req'.event = "join-room"
        /\ MapHas(rooms, JoinKey(req'))
        /\ MapGet(rooms, JoinKey(req')).state = "in-game" )
      =>
      /\ out' = IF req'.cb
                THEN <<Direct(req'.socket, "ack", Fail("GAME_ALREADY_STARTED"))>>
                ELSE <<>>
      /\ rooms' = rooms
      /\ data' = data
      /\ channels' = channels
    ]_vars

\* a join was refused with GAME_ALREADY_STARTED
C10_Witness ==
  /\ req.event = "join-room"
  /\ Refused("GAME_ALREADY_STARTED")
  /\ MapHas(rooms, JoinKey(req))
  /\ MapGet(rooms, JoinKey(req)).state = "in-game"


\* C11: a join-room for a lobby room that holds exactly maxPlayers players
\* is refused with ROOM_FULL (sent when a callback was passed) and the
\* room's players, like the rest of the registry, stay as they were.
C11_JoinFullRefused ==
  [][ ( /\ req'.event = "join-room"
        /\ MapHas(rooms, JoinKey(req'))
        /\ MapGet(rooms, JoinKey(req')).state = "lobby"
        /\ Len(MapGet(rooms, JoinKey(req')).players)
             = MapGet(rooms, JoinKey(req')).maxPlayers )
      =>
      /\ out' = IF req'.cb
                THEN <<Direct(req'.socket, "ack", Fail("ROOM_FULL"))>>
                ELSE <<>>
      /\ rooms' = rooms
      /\ data' = data
      /\ channels' = channels
    ]_vars

\* a socket that is not in the room was refused with ROOM_FULL by a lobby
\* room that holds maxPlayers players
C11_Witness ==
  /\ req.event = "join-room"
  /\ Refused("ROOM_FULL")
  /\ MapHas(rooms, JoinKey(req))
  /\ MapGet(rooms, JoinKey(req)).state = "lobby"
  /\ Len(MapGet(rooms, JoinKey(req)).players) = MapGet(rooms, JoinKey(req)).maxPlayers
  /\ req.socket \notin PlayerIds(MapGet(rooms, JoinKey(req)))

\* C12: a start-game from a socket whose room has another socket as host
\* is refused with NOT_HOST (sent when a callback was passed): the room's
\* state and grid stay as they were and nothing is broadcast.
C12_StartByNonHostRefused ==
  [][ \A s \in SocketIds :
        ( /\ req'.event = "start-game"
          /\ req'.socket = s
          /\ Truthy(data[s].roomId)
          /\ MapHas(rooms, data[s].roomId.v)
          /\ MapGet(rooms, data[s].roomId.v).host # s )
        =>
        /\ out' = IF req'.cb THEN <<Direct(s, "ack", Fail("NOT_HOST"))>> ELSE <<>>
        /\ rooms' = rooms
        /\ MapGet(rooms', data[s].roomId.v).state = MapGet(rooms, data[s].roomId.v).state
        /\ data' = data
        /\ channels' = channels
    ]_vars

\* a player who is not the host asked to start a lobby room and was refused
C12_Witness ==
  /\ req.event = "start-game"
  /\ Refused("NOT_HOST")
  /\ \E room \in LiveRooms :
       /\ data[req.socket].roomId = Str(room.id)
       /\ req.socket \in PlayerIds(room)
       /\ room.host # req.socket
       /\ room.state = "lobby"
       /\ room.grid = Null


ErrorCodes ==
  { "ROOM_NOT_FOUND", "GAME_ALREADY_STARTED", "ROOM_FULL", "NOT_IN_ROOM",
    "PLAYER_NOT_IN_ROOM", "NOT_HOST", "NO_PLAYERS" }

\* C13: a request acknowledged with ok:false leaves the registry, every
\* socket's association, the channels and the connections as they were,
\* and sends nothing but that acknowledgment.
C13_FailureChangesNothing ==
  [][ ( \E k \in 1..Len(out') :
          /\ out'[k].event = "ack"
          /\ out'[k].payload.ok = FALSE )
      =>
      /\ Len(out') = 1
      /\ out'[1].to = {req'.socket}
      /\ out'[1].payload.error \in ErrorCodes
      /\ rooms' = rooms
      /\ data' = data
      /\ channels' = channels
      /\ connected' = connected
      /\ now' = now
    ]_vars

\* a socket with a room association was refused, and still has it
C13_Witness ==
  /\ Len(out) = 1
  /\ out[1].event = "ack"
  /\ out[1].payload.ok = FALSE
  /\ Truthy(data[req.socket].roomId)
  /\ rooms # <<>>

\* C14: create-room stores its room under an id no room of the registry
\* has, so the registry grows by exactly one room.
C14_FreshRoomId ==
  [][ req'.event = "create-room" =>
        /\ ~MapHas(rooms, data'[req'.socket].roomId.v)
        /\ Len(rooms') = Len(rooms) + 1
    ]_vars

\* the public view, field by field
PublicView(room) ==
  [ id |-> room.id,
    host |-> room.host,
    hostName |-> room.hostName,
    players |-> [i \in 1..Len(room.players) |->
                   [ id |-> room.players[i].id,
                     name |-> room.players[i].name,
                     ready |-> room.players[i].ready ]],
    state |-> room.state,
    maxPlayers |-> room.maxPlayers ]

\* C15: a step that stores a new or changed room record broadcasts a
\* lobby-update with that room's new public view to every socket joined to
\* the room's channel, among them every connected player of the room; and
\* every lobby-update a step emits carries the new public view of its room.
C15_ConsistentBroadcast ==
  [][ /\ \A i \in 1..Len(rooms') :
           ( ~MapHas(rooms, rooms'[i].id) \/ MapGet(rooms, rooms'[i].id) # rooms'[i] )
           =>
           \E k \in 1..Len(out') :
             /\ out'[k].event = "lobby-update"
             /\ out'[k].chan = rooms'[i].id
             /\ out'[k].payload = PublicView(rooms'[i])
             /\ out'[k].to = { s \in SocketIds : rooms'[i].id \in channels'[s] }
             /\ \A p \in PlayerIds(rooms'[i]) :
                  connected'[p] = "connected" => p \in out'[k].to
      /\ \A k \in 1..Len(out') :
           out'[k].event = "lobby-update" =>
             /\ MapHas(rooms', out'[k].chan)
             /\ out'[k].payload = PublicView(MapGet(rooms', out'[k].chan))
    ]_vars

\* a toggle-ready was broadcast to two players of the room with a ready
\* flag set
C15_Witness ==
  /\ req.event = "toggle-ready"
  /\ \E k \in 1..Len(out) :
       /\ out[k].event = "lobby-update"
       /\ Cardinality(out[k].to) >= 2
       /\ \E i \in 1..Len(out[k].payload.players) : out[k].payload.players[i].ready
       /\ MapHas(rooms, out[k].chan)
       /\ out[k].payload = PublicView(MapGet(rooms, out[k].chan))


(* --------------- create-room with any integer maxPlayers --------------- *)

ClampRequests ==
  { [payload |-> [name |-> Undefined, maxPlayers |-> m], cb |-> TRUE] :
      m \in {Undefined} \cup { Num(n) : n \in (0 - MaxAbsPlayers)..MaxAbsPlayers } }

ClampLive(s) == Live(s) /\ events < MaxClampEvents

ClampCreateRoom(s) ==
  /\ ClampLive(s)
  /\ \E request \in ClampRequests,
        bytes \in RandomBytes(CeilHalf(ROOM_ID_LEN)), t \in Clock :
       CreateRoomWith(s, request, bytes, t)

NextClamp ==
  \/ \E s \in SocketIds : Connect(s)
  \/ \E s \in SocketIds : ClampCreateRoom(s)
  \/ \E s \in SocketIds : ClampLive(s) /\ JoinRoom(s)
  \/ \E s \in SocketIds : ClampLive(s) /\ LeaveRoom(s)
  \/ \E s \in SocketIds : ClampLive(s) /\ ToggleReady(s)
  \/ \E s \in SocketIds : ClampLive(s) /\ StartGame(s)
  \/ \E s \in SocketIds : ClampLive(s) /\ Disconnect(s)

SpecClamp == Init /\ [][NextClamp]_vars

\* C16: whatever integer (or nothing) create-room is sent as maxPlayers,
\* the stored room's maxPlayers is in 2..6, equal to the value sent when
\* that is in 2..6, and no later step changes it.
C16_MaxPlayersClamped ==
  [][ /\ \A i \in 1..Len(rooms') :
           rooms'[i].maxPlayers >= 2 /\ rooms'[i].maxPlayers <= 6
      /\ req'.event = "create-room" =>
           LET m == req'.arg.maxPlayers
               room == MapGet(rooms', data'[req'.socket].roomId.v)
           IN (m.t = "number" /\ m.v >= 2 /\ m.v <= 6) => room.maxPlayers = m.v
      /\ \A room \in LiveRooms :
           (MapHas(rooms', room.id) /\ ~CreatedInStep(room.id))
           => MapGet(rooms', room.id).maxPlayers = room.maxPlayers
    ]_vars

\* a create-room sent with a negative maxPlayers has stored a room for 2
C16_Witness ==
  /\ req.event = "create-room"
  /\ req.arg.maxPlayers.t = "number"
  /\ req.arg.maxPlayers.v < 0
  /\ MapHas(rooms, data[req.socket].roomId.v)
  /\ MapGet(rooms, data[req.socket].roomId.v).maxPlayers = 2


\* C17: from any state, a disconnect of a socket leaves the registry that
\* a successful leave-room of that socket would leave and emits the same
\* lobby-update, and the other way round; leave-room adds only its
\* acknowledgment.  Where leave-room would fail, disconnect changes no room.
C17_DisconnectAsLeave ==
  [][ \A s \in SocketIds :
        LET rid == data[s].roomId
            found == Truthy(rid) /\ MapHas(rooms, rid.v)
        IN /\ (req'.event = "disconnect" /\ req'.socket = s /\ found) =>
                LET o == leaveRoomOutcome(rooms, [channels EXCEPT ![s] = @ \ {rid.v}],
                                          s, rid.v)
                IN rooms' = o.rooms /\ out' = o.emits
           /\ (req'.event = "disconnect" /\ req'.socket = s /\ ~found) =>
                rooms' = rooms /\ out' = <<>>
           /\ (req'.event = "leave-room" /\ req'.socket = s /\ found) =>
                LET o == disconnectOutcome(rooms, [channels EXCEPT ![s] = {}], s, rid.v)
                IN /\ rooms' = o.rooms
                   /\ out' = o.emits \o (IF req'.cb
                                         THEN <<Direct(s, "ack", [ok |-> TRUE])>>
                                         ELSE <<>>)
    ]_vars

\* a player who is not the host disconnected and the creator, still the
\* host, was sent the lobby-update
C17_Witness ==
  /\ req.event = "disconnect"
  /\ Len(out) = 1
  /\ out[1].event = "lobby-update"
  /\ \E room \in LiveRooms :
       /\ room.id = out[1].chan
       /\ req.socket \notin PlayerIds(room)
       /\ room.hostName = HostPrefix \o Slice(room.host, 0, 4)
       /\ out[1].to = {room.host}


\* C18: a successful toggle-ready flips the ready flag of the caller's
\* (first) player record and nothing else in the registry, acknowledges the
\* new flag, and flipping that flag once more gives the room back as it was.
C18_ToggleFlipsOnlyReady ==
  [][ \A s \in SocketIds :
        ( /\ req'.event = "toggle-ready"
          /\ req'.socket = s
          /\ Truthy(data[s].roomId)
          /\ MapHas(rooms, data[s].roomId.v)
          /\ s \in PlayerIds(MapGet(rooms, data[s].roomId.v)) )
        =>
        LET r == data[s].roomId.v
            old == MapGet(rooms, r)
            i == CHOOSE k \in 1..Len(old.players) :
                   /\ old.players[k].id = s
                   /\ \A j \in 1..(k - 1) : old.players[j].id # s
        IN /\ Len(rooms') = Len(rooms)
           /\ \A k \in 1..Len(rooms) : rooms[k].id # r => rooms'[k] = rooms[k]
           /\ MapHas(rooms', r)
           /\ LET new == MapGet(rooms', r)
              IN /\ new.host = old.host
                 /\ new.hostName = old.hostName
                 /\ new.state = old.state
                 /\ new.grid = old.grid
                 /\ new.maxPlayers = old.maxPlayers
                 /\ new.createdAt = old.createdAt
                 /\ Len(new.players) = Len(old.players)
                 /\ \A j \in 1..Len(old.players) :
                      /\ new.players[j].id = old.players[j].id
                      /\ new.players[j].name = old.players[j].name
                      /\ j # i => new.players[j].ready = old.players[j].ready
                 /\ new.players[i].ready = ~old.players[i].ready
                 /\ [new EXCEPT !.players[i].ready = ~@] = old
                 /\ req'.cb =>
                      out'[Len(out')] =
                        Direct(s, "ack", [ok |-> TRUE, ready |-> new.players[i].ready])
           /\ data' = data
           /\ channels' = channels
    ]_vars

\* the second of two toggles was acknowledged with ready false in a room
\* of two players
C18_Witness ==
  /\ req.event = "toggle-ready"
  /\ Len(out) = 2
  /\ out[2] = Direct(req.socket, "ack", [ok |-> TRUE, ready |-> FALSE])
  /\ MapHas(rooms, data[req.socket].roomId.v)
  /\ \A i \in 1..Len(MapGet(rooms, data[req.socket].roomId.v).players) :
       ~MapGet(rooms, data[req.socket].roomId.v).players[i].ready

\* C19: a start-game from the host of a lobby room puts the room in-game
\* with a grid, broadcasts game-start and is acknowledged with
\* {ok: true, started: true}, whatever the players' ready flags are.
C19_ReadyDoesNotGateStart ==
  [][ \A s \in SocketIds :
        ( /\ req'.event = "start-game"
          /\ req'.socket = s
          /\ Truthy(data[s].roomId)
          /\ MapHas(rooms, data[s].roomId.v)
          /\ MapGet(rooms, data[s].roomId.v).host = s
          /\ MapGet(rooms, data[s].roomId.v).state = "lobby" )
        =>
        /\ MapHas(rooms', data[s].roomId.v)
        /\ MapGet(rooms', data[s].roomId.v).state = "in-game"
        /\ MapGet(rooms', data[s].roomId.v).grid # Null
        /\ MapGet(rooms', data[s].roomId.v).players
             = MapGet(rooms, data[s].roomId.v).players
        /\ \E k \in 1..Len(out') :
             out'[k].event = "game-start" /\ out'[k].chan = data[s].roomId.v
        /\ req'.cb =>
             out'[Len(out')] = Direct(s, "ack", [ok |-> TRUE, started |-> TRUE])
    ]_vars

\* the host started a room of two players of whom none is ready
C19_Witness ==
  /\ req.event = "start-game"
  /\ out # <<>>
  /\ out[Len(out)] = Direct(req.socket, "ack", [ok |-> TRUE, started |-> TRUE])
  /\ \E room \in LiveRooms :
       /\ room.host = req.socket
       /\ room.state = "in-game"
       /\ Len(room.players) = 2
       /\ \A i \in 1..Len(room.players) : ~room.players[i].ready


(* ------------- the lobby when makeRoomId never collides --------------- *)

\* create-room whose makeRoomId() result is not the id of a stored room
FreshCreateRoom(s) ==
  /\ CreateRoom(s)
  /\ ~MapHas(rooms, data'[s].roomId.v)

NextFresh ==
  \/ \E s \in SocketIds : Connect(s)
  \/ \E s \in SocketIds : SetUsername(s)
  \/ \E s \in SocketIds : FreshCreateRoom(s)
  \/ \E s \in SocketIds : JoinRoom(s)
  \/ \E s \in SocketIds : LeaveRoom(s)
  \/ \E s \in SocketIds : ToggleReady(s)
  \/ \E s \in SocketIds : StartGame(s)
  \/ \E s \in SocketIds : GetRooms(s)
  \/ \E s \in SocketIds : Disconnect(s)

SpecFresh == Init /\ [][NextFresh]_vars

\* socket.data.roomId of s names a stored room that holds a record of s
AssociationHolds(s) ==
  Truthy(data[s].roomId) =>
    /\ MapHas(rooms, data[s].roomId.v)
    /\ s \in PlayerIds(MapGet(rooms, data[s].roomId.v))

RoomEvents == {"leave-room", "toggle-ready", "start-game"}

\* C20: when no create-room draws the id of a stored room, the room named
\* by a connection's socket.data.roomId is stored and holds a record of the
\* connection; leave-room, toggle-ready and start-game never answer
\* ROOM_NOT_FOUND and toggle-ready never answers PLAYER_NOT_IN_ROOM; a
\* successful leave-room clears the association, and with no association
\* these three events are refused with NOT_IN_ROOM and change nothing until
\* the connection's own create-room or join-room sets it again.
C20_AssociationSound ==
  [][ /\ \A s \in SocketIds :
           connected'[s] = "connected" => AssociationHolds(s)'
      /\ req'.event \in RoomEvents =>
           \A k \in 1..Len(out') :
              /\ out'[k] # Direct(req'.socket, "ack", Fail("ROOM_NOT_FOUND"))
              /\ out'[k] # Direct(req'.socket, "ack", Fail("PLAYER_NOT_IN_ROOM"))
      /\ \A s \in SocketIds :
           /\ ( /\ req'.event = "leave-room"
                /\ req'.socket = s
                /\ Truthy(data[s].roomId) )
              => /\ data'[s].roomId = Undefined
                 /\ req'.cb => out'[Len(out')] = Direct(s, "ack", [ok |-> TRUE])
           /\ ( /\ req'.event \in RoomEvents
                /\ req'.socket = s
                /\ ~Truthy(data[s].roomId) )
              => /\ UNCHANGED <<rooms, data, channels, connected>>
                 /\ out' = IF req'.cb
                           THEN <<Direct(s, "ack", Fail("NOT_IN_ROOM"))>>
                           ELSE <<>>
           /\ ( ~Truthy(data[s].roomId) /\ Truthy(data'[s].roomId) )
              => /\ req'.socket = s
                 /\ req'.event \in {"create-room", "join-room"}
    ]_vars

\* a connection that created a room and left it is refused NOT_IN_ROOM
C20_Witness ==
  /\ req.event \in RoomEvents
  /\ Refused("NOT_IN_ROOM")
  /\ Truthy(data[req.socket].name)
  /\ HasPrefix(data[req.socket].name.v, HostPrefix)
  /\ data[req.socket].roomId = Undefined

====
